---- MODULE Spec2Model ----
(***************************************************************************)
(* A model of the TipContent component (tip-content.tsx): the React state  *)
(* of the component, the balance loader fetchTokenBalance with its         *)
(* reentrancy flag, the effect that runs it, the submit handler onSubmit   *)
(* with its four awaited steps, and the disabled expression of the submit  *)
(* button.  Every await is a suspension point: the code before it and the  *)
(* code after it are separate atomic steps of the single UI thread.        *)
(*                                                                         *)
(* Encoding of JavaScript values:                                          *)
(*   number            [nan |-> BOOLEAN, v |-> Int]   (NaN has nan = TRUE) *)
(*   T | null          a sequence of length <= 1      (<<>> is null)       *)
(*   string (parsed)   a sequence of one-character strings                 *)
(*   PublicKey | null  0 is null, a key is 1, 2, ...                       *)
(*   Connection        a connection object is 1, 2, ... (0 is undefined)   *)
(***************************************************************************)
EXTENDS Integers, Sequences, FiniteSets, TLC

\* ------------------------------------------------------------- bounds
\* how many onSubmit invocations one behaviour holds
MaxSubmits == 1
\* how many times the wallet hooks return new values in one behaviour
MaxChanges == 1

\* ------------------------------------------------------------- values
Null == <<>>
Some(x) == <<x>>

NaN == [nan |-> TRUE, v |-> 0]
Num(n) == [nan |-> FALSE, v |-> n]

\* the wallets and the connection objects the hooks can return
Keys == {1, 2}
Conns == {1}

\* process.env.NEXT_PUBLIC_USDC_MINT_ADDRESS || ""
mintAddress == "USDC"

\* the raw `amount` query parameter: absent, "0", "-1", "2", "x"
AmountRaws == {Null, Some(<<"0">>), Some(<<"-", "1">>), Some(<<"2">>), Some(<<"x">>)}
\* the raw `receiver_user_id` query parameter: absent or present
ReceiverIds == {Null, Some("42")}
\* the receiverVault prop: 0 is undefined
ReceiverVaults == {0, 1}

\* tokenAmount.uiAmount of a parsed token account: number | null
UiAmounts == {Null, Some(0), Some(2)}
\* the parsed token accounts the chain can return for an owner
Accounts ==
  {[mint |-> mintAddress, uiAmount |-> u, decimals |-> 6] : u \in UiAmounts}
    \cup {[mint |-> "OTHER", uiAmount |-> Some(5), decimals |-> 9]}
\* accounts.value: an array of at most two accounts
AccountLists ==
  {<<>>} \cup {<<a>> : a \in Accounts}
         \cup {<<a, b>> : a \in {x \in Accounts : x.mint # mintAddress}, b \in Accounts}

\* the responses of the backend action deposit(): serializedTransaction 0
\* is a string Transaction.from cannot deserialize, 2 encodes an unsigned
\* transaction; the vault the backend names is none of ReceiverVaults
DepositResponses ==
  {[serializedTransaction |-> s, vaultId |-> v, transactionId |-> 7] :
     s \in {0, 2}, v \in {2}}
TxHashes == {9}

NotFoundMsg == "Required token not found in wallet."
FetchErrMsg == "Error fetching token balance"

\* ------------------------------------------------------------- state
VARIABLES
  wallet,          \* useWallet()/useConnection(): publicKey, connected, connection, signTransaction
  amountRaw,       \* searchParams.get("amount")
  receiverDiscordId, \* searchParams.get("receiver_user_id")
  receiverVault,   \* the receiverVault prop
  tokenBalance,    \* useState<TokenBalance | null>
  loading,         \* useState(false)
  error,           \* useState<string | null>
  isFetchingRef,   \* useRef(false).current
  mounted,         \* the component has rendered and its mount effect has run
  inflight,        \* the getParsedTokenAccountsByOwner calls awaiting their result
  nFetches,        \* how many such calls were issued (the next call's id is nFetches + 1)
  nChanges,        \* how many times the wallet hooks changed
  lastDone,        \* history: the fetch that completed last, Null if none
  balanceFrom,     \* history: id of the fetch whose result tokenBalance holds, 0 if none
  submits          \* the onSubmit invocations, in order of invocation

vars == <<wallet, amountRaw, receiverDiscordId, receiverVault, tokenBalance, loading,
          error, isFetchingRef, mounted, inflight, nFetches, nChanges, lastDone,
          balanceFrom, submits>>

params == <<amountRaw, receiverDiscordId, receiverVault>>
fetchState == <<isFetchingRef, inflight, nFetches, lastDone, balanceFrom>>

\* the values the hooks return: the wallet adapter holds a publicKey exactly
\* while it is connected; signTransaction is undefined for an adapter without it
Wallets ==
  {w \in [publicKey : {0} \cup Keys, connected : BOOLEAN, connection : Conns,
          signTransaction : BOOLEAN] : w.connected <=> w.publicKey # 0}

\* ------------------------------------------------------------- pure functions
Digits == {"0", "1", "2", "3", "4", "5", "6", "7", "8", "9"}
DigitVal(c) ==
  CASE c = "0" -> 0 [] c = "1" -> 1 [] c = "2" -> 2 [] c = "3" -> 3 [] c = "4" -> 4
    [] c = "5" -> 5 [] c = "6" -> 6 [] c = "7" -> 7 [] c = "8" -> 8 [] c = "9" -> 9

RECURSIVE DecimalValue(_)
DecimalValue(s) ==
  IF s = <<>> THEN 0 ELSE 10 * DecimalValue(SubSeq(s, 1, Len(s) - 1)) + DigitVal(s[Len(s)])

AllDigits(s) == s # <<>> /\ \A i \in 1..Len(s) : s[i] \in Digits

\* Number(string) on the strings modelled here: "" is 0, an optionally signed
\* run of decimal digits is its value, anything else is NaN
NumberOfString(s) ==
  IF s = <<>> THEN Num(0)
  ELSE IF AllDigits(s) THEN Num(DecimalValue(s))
  ELSE IF s[1] = "-" /\ AllDigits(Tail(s)) THEN Num(0 - DecimalValue(Tail(s)))
  ELSE IF s[1] = "+" /\ AllDigits(Tail(s)) THEN Num(DecimalValue(Tail(s)))
  ELSE NaN

\* Number(searchParams.get("amount") || 0): null and "" are falsy
AmountOf(raw) ==
  IF raw = Null \/ raw[1] = <<>> THEN Num(0) ELSE NumberOfString(raw[1])

amount == AmountOf(amountRaw)

\* a > b on numbers: false when either is NaN
Gt(a, b) == ~a.nan /\ ~b.nan /\ a.v > b.v

\* Number(tokenBalance?.amount) || 0: undefined gives NaN, null gives 0; NaN and 0 are falsy
BalanceAmount(tb) ==
  IF tb = Null THEN Num(0)
  ELSE IF tb[1].amount = Null THEN Num(0)
  ELSE Num(tb[1].amount[1])

HasBalanceFor(amt, tb) == IF Gt(amt, BalanceAmount(tb)) THEN FALSE ELSE TRUE

hasBalance == HasBalanceFor(amount, tokenBalance)

\* !!error
Truthy(e) == e # Null /\ e[1] # ""

ButtonDisabledIgnoringLoading(e, l, hb) == Truthy(e) \/ ~hb

ButtonDisabledFor(e, l, hb) == Truthy(e) \/ l \/ ~hb

\* the disabled attribute of the submit button
ButtonDisabled == ButtonDisabledFor(error, loading, hasBalance)

\* the submit button is in the rendered tree only past `if (!connected) return ...`
ButtonRendered == wallet.connected

\* accounts.value.find(account => ...mint === mintAddress): the first match, Null if none
RECURSIVE Find(_)
Find(accs) ==
  IF accs = <<>> THEN Null
  ELSE IF Head(accs).mint = mintAddress THEN Some(Head(accs))
  ELSE Find(Tail(accs))

\* ------------------------------------------------------------- initial state
Init ==
  /\ wallet \in Wallets
  /\ amountRaw \in AmountRaws
  /\ receiverDiscordId \in ReceiverIds
  /\ receiverVault \in ReceiverVaults
  /\ tokenBalance = Null
  /\ loading = FALSE
  /\ error = Null
  /\ isFetchingRef = FALSE
  /\ mounted = FALSE
  /\ inflight = {}
  /\ nFetches = 0
  /\ nChanges = 0
  /\ lastDone = Null
  /\ balanceFrom = 0
  /\ submits = <<>>

\* ------------------------------------------------------------- balance loader
FetchProceedsUnguarded(w, ref) ==
  ~(w.publicKey = 0 \/ ~w.connected \/ w.connection = 0)

\* the negation of the early return of fetchTokenBalance
FetchProceeds(w, ref) ==
  ~(ref \/ w.publicKey = 0 \/ ~w.connected \/ w.connection = 0)

\* fetchTokenBalance as rendered with the hook values w, up to its await
FetchTokenBalance(w) ==
  IF FetchProceeds(w, isFetchingRef)
    THEN /\ isFetchingRef' = TRUE
         /\ loading' = TRUE
         /\ error' = Null
         /\ inflight' = inflight \cup
              {[id |-> nFetches + 1, owner |-> w.publicKey, connection |-> w.connection]}
         /\ nFetches' = nFetches + 1
    ELSE UNCHANGED <<isFetchingRef, loading, error, inflight, nFetches>>

\* the first render: useEffect(() => { fetchTokenBalance() }, [fetchTokenBalance])
Mount ==
  /\ ~mounted
  /\ mounted' = TRUE
  /\ FetchTokenBalance(wallet)
  /\ UNCHANGED <<wallet, params, tokenBalance, nChanges, lastDone, balanceFrom, submits>>

\* setTokenBalance({mint, amount: uiAmount, decimals})
BalanceOf(acc) ==
  [mint |-> acc.mint, amount |-> acc.uiAmount, decimals |-> acc.decimals]

ErrorAfterFindUnset(found, e) == e

\* the error state after the if/else on specificTokenAccount
ErrorAfterFind(found, e) == IF found # Null THEN e ELSE Some(NotFoundMsg)

\* the await of getParsedTokenAccountsByOwner resolves with accs: the rest of
\* the try block, then the finally block
FetchResolve(f, accs) ==
  /\ f \in inflight
  /\ LET found == Find(accs) IN
       /\ tokenBalance' = IF found # Null THEN Some(BalanceOf(found[1])) ELSE Null
       /\ error' = ErrorAfterFind(found, error)
       /\ balanceFrom' = IF found # Null THEN f.id ELSE 0
       /\ lastDone' = Some([id |-> f.id, owner |-> f.owner,
                            outcome |-> IF found # Null THEN "match" ELSE "nomatch",
                            uiAmount |-> IF found # Null THEN found[1].uiAmount ELSE Null])
  /\ isFetchingRef' = FALSE
  /\ loading' = FALSE
  /\ inflight' = inflight \ {f}
  /\ UNCHANGED <<wallet, params, mounted, nFetches, nChanges, submits>>

\* the await rejects: the catch block, then the finally block
FetchReject(f) ==
  /\ f \in inflight
  /\ error' = Some(FetchErrMsg)
  /\ lastDone' = Some([id |-> f.id, owner |-> f.owner, outcome |-> "error",
                       uiAmount |-> Null])
  /\ isFetchingRef' = FALSE
  /\ loading' = FALSE
  /\ inflight' = inflight \ {f}
  /\ UNCHANGED <<wallet, params, tokenBalance, balanceFrom, mounted, nFetches,
                 nChanges, submits>>

\* the dependency array of fetchTokenBalance: [publicKey, connected, connection]
DepsChanged(w, v) ==
  w.publicKey # v.publicKey \/ w.connected # v.connected \/ w.connection # v.connection

\* the wallet hooks return new values and the component renders again; the
\* effect runs again when fetchTokenBalance has a new identity
WalletChange(w) ==
  /\ mounted
  /\ nChanges < MaxChanges
  /\ w # wallet
  /\ wallet' = w
  /\ nChanges' = nChanges + 1
  /\ IF DepsChanged(wallet, w)
       THEN FetchTokenBalance(w)
       ELSE UNCHANGED <<isFetchingRef, loading, error, inflight, nFetches>>
  /\ UNCHANGED <<params, mounted, tokenBalance, lastDone, balanceFrom, submits>>

\* ------------------------------------------------------------- submit flow
Call(fn) ==
  [fn |-> fn, payer |-> 0, vaultId |-> 0, transactionId |-> 0, transaction |-> Null,
   signedTransaction |-> 0, amount |-> Num(0), discordUserId |-> Null]

\* deposit({payer, vaultId: receiverVault || undefined, ..., amount, token})
DepositCall(pk, rv, amt) ==
  [Call("deposit") EXCEPT !.payer = pk, !.vaultId = rv, !.amount = amt]

\* Transaction.from(Buffer.from(s, "base64")): Null when it throws
TransactionFrom(s) ==
  IF s < 2 THEN Null ELSE Some([message |-> s \div 2, signed |-> s % 2 = 1])

\* tx.serialize().toString("base64")
SerializeBase64(tx) == 2 * tx.message + (IF tx.signed THEN 1 ELSE 0)

\* signTransaction(transaction)
SignCall(tx) == [Call("signTransaction") EXCEPT !.transaction = Some(tx)]

ExecuteCallPropVault(rv, res, signedTx) ==
  [Call("execute") EXCEPT !.vaultId = rv, !.transactionId = res.transactionId,
                          !.signedTransaction = SerializeBase64(signedTx)]

\* execute({vaultId: depositRes.vaultId, transactionId, signedTransaction})
ExecuteCall(rv, res, signedTx) ==
  [Call("execute") EXCEPT !.vaultId = res.vaultId, !.transactionId = res.transactionId,
                          !.signedTransaction = SerializeBase64(signedTx)]

\* depositInDatabase({amount, vaultId: depositRes.vaultId, discordUserId})
RecordCall(rv, res, amt, rid) ==
  [Call("depositInDatabase") EXCEPT !.amount = amt, !.vaultId = res.vaultId,
                                    !.discordUserId = rid]

PreconditionsWalletOnly(w, rid) ==
  ~(w.connection = 0 \/ w.publicKey = 0 \/ ~w.signTransaction)

\* the negation of the two early returns of onSubmit
Preconditions(w, rid) ==
  /\ ~(w.connection = 0 \/ w.publicKey = 0 \/ ~w.signTransaction)
  /\ ~(rid = Null \/ rid[1] = "")

NewFlow ==
  [pc |-> "noop", depositRes |-> Null, transaction |-> Null, txHash |-> 0,
   calls |-> <<>>, toasts |-> <<>>]

\* a click on the submit button: onSubmit up to its first await
ClickSubmit ==
  /\ mounted
  /\ Len(submits) < MaxSubmits
  /\ ButtonRendered
  /\ ~ButtonDisabled
  /\ IF Preconditions(wallet, receiverDiscordId)
       THEN /\ loading' = TRUE
            /\ submits' = Append(submits,
                 [NewFlow EXCEPT !.pc = "deposit",
                    !.calls = <<DepositCall(wallet.publicKey, receiverVault, amount)>>])
       ELSE /\ submits' = Append(submits, NewFlow)
            /\ UNCHANGED loading
  /\ UNCHANGED <<wallet, params, tokenBalance, error, mounted, fetchState, nChanges>>

CatchKeepsLoading(i) ==
  /\ UNCHANGED loading
  /\ submits' = [submits EXCEPT ![i].pc = "failed",
                                ![i].toasts = Append(@, [kind |-> "error", txHash |-> 0])]

\* the catch block of onSubmit
Catch(i) ==
  /\ loading' = FALSE
  /\ submits' = [submits EXCEPT ![i].pc = "failed",
                                ![i].toasts = Append(@, [kind |-> "error", txHash |-> 0])]

\* deposit() resolves with res: Transaction.from, then signTransaction is called
DepositReturn(i, res) ==
  /\ i \in 1..Len(submits)
  /\ submits[i].pc = "deposit"
  /\ LET tx == TransactionFrom(res.serializedTransaction) IN
       IF tx = Null
         THEN Catch(i)
         ELSE /\ submits' = [submits EXCEPT ![i].pc = "sign",
                                            ![i].depositRes = Some(res),
                                            ![i].transaction = tx,
                                            ![i].calls = Append(@, SignCall(tx[1]))]
              /\ UNCHANGED loading
  /\ UNCHANGED <<wallet, params, tokenBalance, error, mounted, fetchState, nChanges>>

\* signTransaction resolves with the signed transaction: execute is called
SignReturn(i) ==
  /\ i \in 1..Len(submits)
  /\ submits[i].pc = "sign"
  /\ LET signedTx == [submits[i].transaction[1] EXCEPT !.signed = TRUE] IN
       submits' = [submits EXCEPT ![i].pc = "execute",
                     ![i].calls = Append(@, ExecuteCall(receiverVault,
                                              submits[i].depositRes[1], signedTx))]
  /\ UNCHANGED <<wallet, params, tokenBalance, loading, error, mounted, fetchState,
                 nChanges>>

\* execute() resolves with {txHash}: depositInDatabase is called
ExecuteReturn(i, h) ==
  /\ i \in 1..Len(submits)
  /\ submits[i].pc = "execute"
  /\ submits' = [submits EXCEPT ![i].pc = "record", ![i].txHash = h,
                   ![i].calls = Append(@, RecordCall(receiverVault,
                                            submits[i].depositRes[1], amount,
                                            receiverDiscordId))]
  /\ UNCHANGED <<wallet, params, tokenBalance, loading, error, mounted, fetchState,
                 nChanges>>

\* the toasts of a flow after depositInDatabase has resolved
ToastsAfterRecord(ts, h) == Append(ts, [kind |-> "success", txHash |-> h])

\* depositInDatabase() resolves: the success toast, setLoading(false)
RecordReturn(i) ==
  /\ i \in 1..Len(submits)
  /\ submits[i].pc = "record"
  /\ submits' = [submits EXCEPT ![i].pc = "done",
                   ![i].toasts = ToastsAfterRecord(@, submits[i].txHash)]
  /\ loading' = FALSE
  /\ UNCHANGED <<wallet, params, tokenBalance, error, mounted, fetchState, nChanges>>

\* the awaited call of flow i (deposit, signTransaction, execute or
\* depositInDatabase) rejects: the catch block
StepReject(i) ==
  /\ i \in 1..Len(submits)
  /\ submits[i].pc \in {"deposit", "sign", "execute", "record"}
  /\ Catch(i)
  /\ UNCHANGED <<wallet, params, tokenBalance, error, mounted, fetchState, nChanges>>

\* ------------------------------------------------------------- specification
Next ==
  \/ Mount
  \/ \E f \in inflight : \E accs \in AccountLists : FetchResolve(f, accs)
  \/ \E f \in inflight : FetchReject(f)
  \/ \E w \in Wallets : WalletChange(w)
  \/ ClickSubmit
  \/ \E i \in 1..MaxSubmits : \E res \in DepositResponses : DepositReturn(i, res)
  \/ \E i \in 1..MaxSubmits : SignReturn(i)
  \/ \E i \in 1..MaxSubmits : \E h \in TxHashes : ExecuteReturn(i, h)
  \/ \E i \in 1..MaxSubmits : RecordReturn(i)
  \/ \E i \in 1..MaxSubmits : StepReject(i)

Spec == Init /\ [][Next]_vars

\* ------------------------------------------------------------- properties
Flows == 1..Len(submits)
Awaiting == {"deposit", "sign", "execute", "record"}
\* how many of the four steps a flow has invoked when it awaits step p
StepIndex(p) ==
  CASE p = "deposit" -> 1 [] p = "sign" -> 2 [] p = "execute" -> 3 [] p = "record" -> 4
    [] p = "done" -> 4 [] OTHER -> 0
StepNames == <<"deposit", "signTransaction", "execute", "depositInDatabase">>
Fns(calls) == [k \in 1..Len(calls) |-> calls[k].fn]
Kinds(toasts) == [k \in 1..Len(toasts) |-> toasts[k].kind]
SubmitStarted == Len(submits') > Len(submits)

\* C1: a submit invocation that passed its preconditions has invoked, while it
\* awaits step k, exactly the first k of deposit, signTransaction, execute,
\* depositInDatabase, once each and in that order, and no notification yet;
\* signTransaction got the transaction deserialized from deposit's
\* serializedTransaction, execute and depositInDatabase got deposit's vaultId;
\* once depositInDatabase has returned all four are invoked and the
\* notifications of the invocation are exactly one success notification.
C1_SubmitSequence ==
  \A i \in Flows :
    LET f == submits[i] IN
      f.pc \in Awaiting \cup {"done"} =>
        /\ Fns(f.calls) = SubSeq(StepNames, 1, StepIndex(f.pc))
        /\ Kinds(f.toasts) = IF f.pc = "done" THEN <<"success">> ELSE <<>>
        /\ Len(f.calls) >= 2 =>
             /\ f.depositRes # Null
             /\ f.depositRes[1].serializedTransaction >= 2
             /\ f.calls[2].transaction =
                  Some([message |-> f.depositRes[1].serializedTransaction \div 2,
                        signed |-> f.depositRes[1].serializedTransaction % 2 = 1])
        /\ Len(f.calls) >= 3 => f.calls[3].vaultId = f.depositRes[1].vaultId
        /\ Len(f.calls) >= 4 => f.calls[4].vaultId = f.depositRes[1].vaultId

C1_Witness ==
  \E i \in Flows : submits[i].pc = "done" /\ receiverVault # submits[i].depositRes[1].vaultId

\* C2: in the step in which an awaited step of a submit invocation fails (or
\* deposit's transaction cannot be deserialized) no further step is invoked,
\* one failure notification is emitted and loading becomes false; a failed
\* invocation never invokes a step or emits a notification afterwards, and
\* its notifications are exactly one failure notification.
C2_FailureAborts ==
  [][\A i \in Flows :
       /\ (submits[i].pc \in Awaiting /\ submits'[i].pc = "failed") =>
            /\ submits'[i].calls = submits[i].calls
            /\ Len(submits[i].calls) = StepIndex(submits[i].pc)
            /\ loading' = FALSE
       /\ submits'[i].pc = "failed" =>
            /\ Kinds(submits'[i].toasts) = <<"error">>
            /\ Len(submits'[i].calls) < 4 \/ Fns(submits'[i].calls) = StepNames
       /\ submits[i].pc = "failed" => submits'[i] = submits[i]]_vars

C2_Witness ==
  \E i \in Flows : submits[i].pc = "failed" /\ Len(submits[i].calls) = 3 /\ ~loading

\* C3: at most one getParsedTokenAccountsByOwner call is in flight, and a run
\* of fetchTokenBalance while isFetchingRef is set issues no call and leaves
\* loading, error and tokenBalance as they are.
C3_SingleFetch ==
  [][/\ Cardinality(inflight) <= 1
     /\ Cardinality(inflight') <= 1
     /\ ((~mounted \/ DepsChanged(wallet, wallet')) /\ isFetchingRef) =>
          UNCHANGED <<inflight, nFetches, loading, error, tokenBalance>>]_vars

\* a fetch for one wallet is in flight, the wallet has changed to another one
\* and the effect of that change has run
C3_Witness ==
  /\ wallet.connected
  /\ \E f \in inflight : f.owner # wallet.publicKey

\* C4: when no fetch is in flight, tokenBalance holds the result of the fetch
\* that completed last: the matching account's amount if it matched, and
\* never the value an earlier fetch stored.
C4_LatestFetch ==
  (inflight = {} /\ lastDone # Null) =>
    /\ lastDone[1].outcome = "match" =>
         tokenBalance # Null /\ tokenBalance[1].amount = lastDone[1].uiAmount
    /\ tokenBalance # Null => balanceFrom = lastDone[1].id

\* C5: while loading is true, or error is non-null, or hasBalance() is false,
\* the button is disabled and no onSubmit invocation starts.
C5_SubmitDisabled ==
  [][(loading \/ error # Null \/ ~hasBalance) => (ButtonDisabled /\ ~SubmitStarted)]_vars

C5_Witness ==
  /\ ButtonRendered
  /\ Len(submits) < MaxSubmits
  /\ loading
  /\ error = Null
  /\ hasBalance

\* C6: an onSubmit invocation without connection, publicKey, signTransaction
\* or receiver_user_id invokes no step and emits no notification, then or
\* later, and leaves loading, error and tokenBalance unchanged.
C6_PreconditionNoop ==
  [][/\ (/\ SubmitStarted
         /\ \/ wallet.connection = 0
            \/ wallet.publicKey = 0
            \/ ~wallet.signTransaction
            \/ receiverDiscordId = Null) =>
          /\ Len(submits') = Len(submits) + 1
          /\ submits'[Len(submits')].calls = <<>>
          /\ submits'[Len(submits')].toasts = <<>>
          /\ UNCHANGED <<loading, error, tokenBalance>>
     /\ \A i \in Flows :
          submits[i].calls = <<>> =>
            submits'[i].calls = <<>> /\ submits'[i].toasts = <<>>]_vars

C6_Witness ==
  \E i \in Flows :
    submits[i].calls = <<>> /\ submits[i].toasts = <<>> /\ receiverDiscordId = Null

\* a <= b on numbers: false when either is NaN
Le(a, b) == ~a.nan /\ ~b.nan /\ a.v <= b.v
\* the stored balance as the number `amount <= balance` compares with: null is 0
StoredBalance == IF tokenBalance[1].amount = Null THEN Num(0) ELSE Num(tokenBalance[1].amount[1])

\* C7: after a fetch that matched the configured mint, the stored amount is
\* the account's uiAmount and hasBalance() is true exactly when
\* amount <= balance.
C7_Affordability ==
  (inflight = {} /\ lastDone # Null /\ lastDone[1].outcome = "match") =>
    /\ tokenBalance # Null
    /\ tokenBalance[1].amount = lastDone[1].uiAmount
    /\ hasBalance <=> Le(amount, StoredBalance)

\* C8: after a fetch completed without a matching account and until the next
\* fetch starts, tokenBalance is null, error is the token-not-found message,
\* loading is false and the button is disabled.
C8_TokenNotFound ==
  (lastDone # Null /\ lastDone[1].outcome = "nomatch" /\ lastDone[1].id = nFetches) =>
    /\ tokenBalance = Null
    /\ error = Some(NotFoundMsg)
    /\ ~loading
    /\ ButtonDisabled

C8_Witness ==
  /\ lastDone # Null
  /\ lastDone[1].outcome = "nomatch"
  /\ lastDone[1].id = nFetches
  /\ ButtonRendered
  /\ hasBalance
  /\ \E i \in Flows : submits[i].pc \in {"done", "failed"}

\* C9: once the component is mounted and every fetch has completed, the stored
\* balance/error comes from a fetch made for the connected wallet.
C9_FetchForCurrentWallet ==
  (mounted /\ inflight = {} /\ wallet.connected /\ wallet.publicKey # 0) =>
    lastDone # Null /\ lastDone[1].owner = wallet.publicKey

\* C10: loading is true whenever a balance fetch or a submit flow is in flight.
C10_LoadingWhileInFlight ==
  (inflight # {} \/ \E i \in Flows : submits[i].pc \in Awaiting) => loading

====
